---- MODULE Spec2Model ----
(***************************************************************************)
(* Model of the examples_validation data source of the coverage provider:  *)
(* ExamplesValidationDataSource.Read, findMissingTests and searchFile.     *)
(*                                                                         *)
(* Strings are sequences of one-character strings, so that the regular     *)
(* expressions, strings.Contains and filepath.Base are computed character  *)
(* by character as the Go code computes them.                              *)
(***************************************************************************)
EXTENDS Naturals, Integers, Sequences, FiniteSets, TLC

(***************************************************************************)
(* Bounds of the model.                                                    *)
(***************************************************************************)
\* largest number of entries of the tests directory
MaxFiles == 2
\* largest number of lines the test files hold in all
MaxLines == 2
\* largest number of further quoted tokens on a generated line
MaxExtraTokens == 1

(***************************************************************************)
(* Characters and string literals.                                         *)
(***************************************************************************)
QUOTE == "\""
SLASH == "/"

S_source == <<"s", "o", "u", "r", "c", "e">>
S_examples == <<"e", "x", "a", "m", "p", "l", "e", "s">>
S_a == <<"a">>
S_b == <<"b">>
S_c == <<"c">>
S_dot == <<".">>
S_basic == <<"b", "a", "s", "i", "c">>
S_group == <<"g", "r", "o", "u", "p">>

Quoted(s) == <<QUOTE>> \o s \o <<QUOTE>>

\* "./examples/" followed by rest
DotExamples(rest) == <<".", SLASH>> \o S_examples \o <<SLASH>> \o rest

(***************************************************************************)
(* Go slices: a nil slice is distinct from an empty non-nil slice.         *)
(***************************************************************************)
NilSlice == [isNil |-> TRUE, elems |-> <<>>]

\* append(s, xs...): appending nothing to a nil slice leaves it nil
GoAppend(s, xs) ==
    IF xs = <<>> THEN s ELSE [isNil |-> FALSE, elems |-> s.elems \o xs]

\* slices.Contains(s, e)
SlicesContains(s, e) == \E i \in 1..Len(s.elems) : s.elems[i] = e

(***************************************************************************)
(* regexp: a regular expression is a sequence of items, each a character   *)
(* class with a quantifier; the whole expression is anchored by ^ and $.   *)
(***************************************************************************)
WhiteSpace == {" ", "\t", "\n", "\f", "\r"}

Lit(c) == [cls |-> "lit", ch |-> c, q |-> "one"]
Lits(s) == [i \in 1..Len(s) |-> Lit(s[i])]
WsStar == [cls |-> "ws", ch |-> " ", q |-> "star"]
WsPlus == [cls |-> "ws", ch |-> " ", q |-> "plus"]
AnyStar == [cls |-> "any", ch |-> " ", q |-> "star"]
AnyPlus == [cls |-> "any", ch |-> " ", q |-> "plus"]

Accepts(item, c) ==
    CASE item.cls = "lit" -> c = item.ch
      [] item.cls = "ws" -> c \in WhiteSpace
      [] item.cls = "any" -> c # "\n"

\* items i.. of re match exactly the text s[p..Len(s)]
RECURSIVE MatchFrom(_, _, _, _)
MatchFrom(re, i, s, p) ==
    IF i > Len(re) THEN p > Len(s)
    ELSE LET item == re[i]
             step == p <= Len(s) /\ Accepts(item, s[p])
         IN CASE item.q = "one" -> step /\ MatchFrom(re, i + 1, s, p + 1)
              [] item.q = "star" ->
                    \/ MatchFrom(re, i + 1, s, p)
                    \/ step /\ MatchFrom(re, i, s, p + 1)
              [] item.q = "plus" ->
                    step /\ (\/ MatchFrom(re, i + 1, s, p + 1)
                             \/ MatchFrom(re, i, s, p + 1))

\* a mutant of LineRegex: the leading ^ anchor is missing
LineRegexUnanchored ==
    <<AnyStar, WsStar>> \o Lits(S_source) \o <<WsStar, Lit("="), WsStar, Lit(QUOTE), AnyPlus>>
        \o Lits(S_examples) \o <<AnyPlus, Lit(QUOTE)>>

\* a mutant of LineRegex: whitespace is required around the = sign
LineRegexSpaced ==
    <<WsStar>> \o Lits(S_source) \o <<WsPlus, Lit("="), WsPlus, Lit(QUOTE), AnyPlus>>
        \o Lits(S_examples) \o <<AnyPlus, Lit(QUOTE)>>

\* ^\s*source\s*=\s*".+examples.+"$
LineRegex ==
    <<WsStar>> \o Lits(S_source) \o <<WsStar, Lit("="), WsStar, Lit(QUOTE), AnyPlus>>
        \o Lits(S_examples) \o <<AnyPlus, Lit(QUOTE)>>

\* r.MatchString(line)
MatchString(line) == MatchFrom(LineRegex, 1, line, 1)

\* position of the first QUOTE of s at or after p, 0 when there is none
RECURSIVE NextQuote(_, _)
NextQuote(s, p) ==
    IF p > Len(s) THEN 0
    ELSE IF s[p] = QUOTE THEN p ELSE NextQuote(s, p + 1)

\* a mutant of FindAllStringSubmatch: only the first match is returned
FindFirstSubmatch(s, p) ==
    LET i == NextQuote(s, p)
        j == IF i = 0 THEN 0 ELSE NextQuote(s, i + 1)
    IN IF i = 0 \/ j = 0 THEN <<>> ELSE <<SubSeq(s, i + 1, j - 1)>>

\* re.FindAllStringSubmatch(line, -1) for "(.*?)": the first groups of the
\* successive leftmost non-greedy matches, searching on from position p
RECURSIVE FindAllStringSubmatch(_, _)
FindAllStringSubmatch(s, p) ==
    LET i == NextQuote(s, p)
        j == IF i = 0 THEN 0 ELSE NextQuote(s, i + 1)
    IN IF i = 0 \/ j = 0 THEN <<>>
       ELSE <<SubSeq(s, i + 1, j - 1)>> \o FindAllStringSubmatch(s, j + 1)

(***************************************************************************)
(* filepath.Base                                                           *)
(***************************************************************************)
RECURSIVE StripTrailingSlashes(_)
StripTrailingSlashes(path) ==
    IF Len(path) > 0 /\ path[Len(path)] = SLASH
    THEN StripTrailingSlashes(SubSeq(path, 1, Len(path) - 1))
    ELSE path

\* the index i of the loop "for i >= 0 && !IsPathSeparator(path[i]) { i-- }", 1-based
RECURSIVE LastSlash(_, _)
LastSlash(path, i) ==
    IF i >= 1 /\ path[i] # SLASH THEN LastSlash(path, i - 1) ELSE i

\* a mutant of Base: trailing slashes are not stripped and "" is kept
BaseNoStrip(path) ==
    LET i == LastSlash(path, Len(path))
    IN IF i >= 1 THEN SubSeq(path, i + 1, Len(path)) ELSE path

Base(path) ==
    IF path = <<>> THEN S_dot
    ELSE LET stripped == StripTrailingSlashes(path)
             i == LastSlash(stripped, Len(stripped))
             last == IF i >= 1 THEN SubSeq(stripped, i + 1, Len(stripped)) ELSE stripped
         IN IF last = <<>> THEN <<SLASH>> ELSE last

(***************************************************************************)
(* strings.Contains                                                        *)
(***************************************************************************)
\* strings.Index(s, substr), searching from offset i (0-based); -1 if absent
RECURSIVE IndexFrom(_, _, _)
IndexFrom(s, substr, i) ==
    IF i + Len(substr) > Len(s) THEN -1
    ELSE IF SubSeq(s, i + 1, i + Len(substr)) = substr THEN i
    ELSE IndexFrom(s, substr, i + 1)

StringsContains(s, substr) == IndexFrom(s, substr, 0) >= 0

\* the references one line contributes to searchFile's result
LineRefs(line) ==
    IF MatchString(line)
    THEN LET matches == FindAllStringSubmatch(line, 1)
         IN [k \in 1..Len(matches) |-> Base(matches[k])]
    ELSE <<>>

(***************************************************************************)
(* The file system the operation reads.  os.ReadDir returns the entries    *)
(* of a directory sorted by file name, so every listing is a subsequence   *)
(* of a pool that is sorted by name.                                       *)
(***************************************************************************)
examplesDirectory == <<"examples">>
testsDirectory == <<"tests">>

\* filepath.Join(testsDirectory, file.Name())
Join(dir, name) == dir \o <<name>>

ExamplePool ==
    << [name |-> S_a, isDir |-> TRUE],
       [name |-> S_b, isDir |-> TRUE],
       [name |-> S_c, isDir |-> FALSE] >>

TestPool ==
    << [name |-> <<"a", "_", "t">>, isDir |-> FALSE],
       [name |-> <<"b", "_", "T">>, isDir |-> FALSE],
       [name |-> <<"c", "_", "t">>, isDir |-> TRUE],
       [name |-> <<"d", "_", "t", "f">>, isDir |-> FALSE] >>

Filters == { <<>>, <<"_", "t">>, <<"T">> }

\*   source = "./examples/a"
Line_a == <<" ", " ">> \o S_source \o <<" ", "=", " ">> \o Quoted(DotExamples(S_a))
\* source = "./examples/b"
Line_b == S_source \o <<" ", "=", " ">> \o Quoted(DotExamples(S_b))
\* # source = "./examples/a"
Line_comment == <<"#", " ">> \o S_source \o <<" ", "=", " ">> \o Quoted(DotExamples(S_a))

FileLines == {Line_a, Line_b, Line_comment}

SeqsUpTo(S, n) == UNION {[1..k -> S] : k \in 0..n}

\* the subsequence of pool at the indexes in I, in pool order
RECURSIVE SubPool(_, _, _)
SubPool(pool, I, i) ==
    IF i > Len(pool) THEN <<>>
    ELSE (IF i \in I THEN <<pool[i]>> ELSE <<>>) \o SubPool(pool, I, i + 1)

RECURSIVE TotalLines(_, _)
TotalLines(entries, i) ==
    IF i > Len(entries) THEN 0 ELSE Len(entries[i].lines) + TotalLines(entries, i + 1)

ExampleListings ==
    { SubPool(ExamplePool, I, 1) : I \in {{}, {1}, {1, 2}, {1, 2, 3}, {2, 3}} }

\* listings of at most MaxFiles entries holding at most MaxLines lines in all
TestListings ==
    UNION { LET base == SubPool(TestPool, I, 1)
                contents == SeqsUpTo(FileLines, MaxLines)
            IN { [i \in 1..Len(base) |->
                    [name |-> base[i].name, isDir |-> base[i].isDir, lines |-> c[i]]] :
                 c \in { d \in [1..Len(base) -> contents] :
                           /\ \A i \in 1..Len(base) : base[i].isDir => d[i] = <<>>
                           /\ TotalLines([i \in 1..Len(base) |-> [lines |-> d[i]]], 1)
                                 <= MaxLines } }
          : I \in { J \in SUBSET (1..Len(TestPool)) : Cardinality(J) <= MaxFiles } }

(***************************************************************************)
(* State.                                                                  *)
(***************************************************************************)
VARIABLES
    fs,          \* the directory listings and file contents on disk
    filter,      \* data.Filter
    pc,          \* the statement control is at
    examples,    \* findMissingTests: examples
    tests,       \* findMissingTests: tests
    missing,     \* findMissingTests: missing, then Read: missingTests
    idx,         \* position of the loop over testFiles
    handles,     \* the entries of testFiles whose file is open
    lineNo,      \* searchFile: lines the scanner has returned
    result,      \* searchFile: result
    diagsError,  \* resp.Diagnostics.HasError()
    state,       \* resp.State
    panicValue,  \* the value the goroutine panicked with
    opened,      \* history: entries of testFiles that os.Open was called on
    scanned,     \* history: <<entry, line number>> of the lines scanned
    scanErrAt,   \* history: entries whose scanner stopped on an error
    lastLine,    \* history: the line the scanner returned last
    lastRefs,    \* history: the references appended for lastLine
    failed       \* history: the directory or file whose ReadDir or Open failed

vars == <<fs, filter, pc, examples, tests, missing, idx, handles, lineNo, result,
          diagsError, state, panicValue, opened, scanned, scanErrAt, lastLine, lastRefs,
          failed>>

NoState == [set |-> FALSE, id |-> "", missing_tests |-> [null |-> TRUE, elems |-> <<>>]]
NoPanic == [op |-> "none", path |-> <<>>]
NoLine == <<"\n">>

testFiles == fs.tests

InitWith(f, flt) ==
    /\ fs = f
    /\ filter = flt
    /\ pc = "Read"
    /\ examples = NilSlice
    /\ tests = NilSlice
    /\ missing = NilSlice
    /\ idx = 0
    /\ handles = {}
    /\ lineNo = 0
    /\ result = NilSlice
    /\ diagsError = FALSE
    /\ state = NoState
    /\ panicValue = NoPanic
    /\ opened = {}
    /\ scanned = {}
    /\ scanErrAt = {}
    /\ lastLine = NoLine
    /\ lastRefs = <<>>
    /\ failed = NoPanic

Init ==
    \E ex \in ExampleListings, ts \in TestListings, flt \in Filters :
        InitWith([examples |-> ex, tests |-> ts], flt)

(***************************************************************************)
(* Operations.                                                             *)
(***************************************************************************)
\* a mutant of PanicWith: the error is dropped and control goes on
ErrorIgnored(err, next) == [pc |-> next, value |-> NoPanic]

\* if err != nil { panic(err) }: control never reaches the statement `next`
PanicWith(err, next) == [pc |-> "Panic", value |-> err]

\* a mutant of Selected: the arguments of strings.Contains are swapped
SelectedSwapped(file, flt) == ~file.isDir /\ StringsContains(flt, file.name)

\* !file.IsDir() && strings.Contains(file.Name(), filter)
Selected(file, flt) == ~file.isDir /\ StringsContains(file.name, flt)

\* a mutant of CloseFile: the deferred f.Close() is missing
CloseFileMissing(open, i) == open

\* defer f.Close(), run when searchFile returns
CloseFile(open, i) == open \ {i}

\* the names of the directories among files, appended to a nil slice in order
RECURSIVE DirNames(_, _)
DirNames(files, i) ==
    IF i > Len(files) THEN <<>>
    ELSE (IF files[i].isDir THEN <<files[i].name>> ELSE <<>>) \o DirNames(files, i + 1)

\* a mutant of MissingOf: the test of slices.Contains is not negated
RECURSIVE MissingOfCovered(_, _, _)
MissingOfCovered(ex, ts, i) ==
    IF i > Len(ex.elems) THEN NilSlice
    ELSE LET rest == MissingOfCovered(ex, ts, i + 1)
         IN IF SlicesContains(ts, ex.elems[i])
            THEN [isNil |-> FALSE, elems |-> <<ex.elems[i]>> \o rest.elems]
            ELSE rest

\* for _, e := range examples { if !slices.Contains(tests, e) { missing = append(missing, e) } }
RECURSIVE MissingOf(_, _, _)
MissingOf(ex, ts, i) ==
    IF i > Len(ex.elems) THEN NilSlice
    ELSE LET rest == MissingOf(ex, ts, i + 1)
         IN IF ~SlicesContains(ts, ex.elems[i])
            THEN [isNil |-> FALSE, elems |-> <<ex.elems[i]>> \o rest.elems]
            ELSE rest

\* types.ListValueFrom(ctx, types.StringType, missingTests): a nil slice
\* converts to the null list
ListValueFrom(slice) == [null |-> slice.isNil, elems |-> slice.elems]

\* Read: the configuration is read into the model
ReadConfig ==
    /\ pc = "Read"
    /\ \E configOk \in BOOLEAN :
          IF configOk
          THEN pc' = "ReadDirExamples" /\ UNCHANGED diagsError
          ELSE pc' = "Done" /\ diagsError' = TRUE
    /\ UNCHANGED <<fs, filter, examples, tests, missing, idx, handles, lineNo, result,
                   state, panicValue, opened, scanned, scanErrAt, lastLine, lastRefs,
                   failed>>

\* findMissingTests: os.ReadDir(examplesDirectory) and the loop collecting examples
ListExamples ==
    /\ pc = "ReadDirExamples"
    /\ \E ok \in BOOLEAN :
          IF ok
          THEN /\ examples' = GoAppend(NilSlice, DirNames(fs.examples, 1))
               /\ pc' = "ReadDirTests"
               /\ UNCHANGED <<panicValue, failed>>
          ELSE LET err == [op |-> "ReadDir", path |-> examplesDirectory]
                   out == PanicWith(err, "ReadDirTests")
               IN /\ failed' = err
                  /\ pc' = out.pc
                  /\ panicValue' = out.value
                  /\ UNCHANGED examples
    /\ UNCHANGED <<fs, filter, tests, missing, idx, handles, lineNo, result, diagsError,
                   state, opened, scanned, scanErrAt, lastLine, lastRefs>>

\* findMissingTests: os.ReadDir(testsDirectory)
ListTests ==
    /\ pc = "ReadDirTests"
    /\ \E ok \in BOOLEAN :
          IF ok
          THEN /\ pc' = "Loop"
               /\ idx' = 1
               /\ UNCHANGED <<panicValue, failed>>
          ELSE LET err == [op |-> "ReadDir", path |-> testsDirectory]
                   out == PanicWith(err, "Diff")
               IN /\ failed' = err
                  /\ pc' = out.pc
                  /\ panicValue' = out.value
                  /\ UNCHANGED idx
    /\ UNCHANGED <<fs, filter, examples, tests, missing, handles, lineNo, result,
                   diagsError, state, opened, scanned, scanErrAt, lastLine, lastRefs>>

\* the loop over testFiles: an entry that is a directory or does not match the filter
SkipEntry ==
    /\ pc = "Loop"
    /\ idx <= Len(testFiles)
    /\ ~Selected(testFiles[idx], filter)
    /\ idx' = idx + 1
    /\ UNCHANGED <<fs, filter, pc, examples, tests, missing, handles, lineNo, result,
                   diagsError, state, panicValue, opened, scanned, scanErrAt, lastLine,
                   lastRefs, failed>>

\* the loop over testFiles calls searchFile: os.Open(file)
OpenFile ==
    /\ pc = "Loop"
    /\ idx <= Len(testFiles)
    /\ Selected(testFiles[idx], filter)
    /\ \E ok \in BOOLEAN :
          IF ok
          THEN /\ handles' = handles \cup {idx}
               /\ opened' = opened \cup {idx}
               /\ lineNo' = 0
               /\ result' = NilSlice
               /\ pc' = "Scan"
               /\ UNCHANGED <<panicValue, failed, idx>>
          ELSE LET err == [op |-> "Open", path |-> Join(testsDirectory, testFiles[idx].name)]
                   out == PanicWith(err, "Loop")
               IN /\ failed' = err
                  /\ pc' = out.pc
                  /\ panicValue' = out.value
                  /\ idx' = IF out.pc = "Loop" THEN idx + 1 ELSE idx
                  /\ UNCHANGED <<handles, opened, lineNo, result>>
    /\ UNCHANGED <<fs, filter, examples, tests, missing, diagsError, state, scanned,
                   scanErrAt, lastLine, lastRefs>>

\* searchFile: scanner.Scan() returns a line, and the loop body runs on it
ScanLine ==
    /\ pc = "Scan"
    /\ lineNo < Len(testFiles[idx].lines)
    /\ LET line == testFiles[idx].lines[lineNo + 1]
           refs == LineRefs(line)
       IN /\ result' = GoAppend(result, refs)
          /\ lastLine' = line
          /\ lastRefs' = refs
    /\ lineNo' = lineNo + 1
    /\ scanned' = scanned \cup {<<idx, lineNo + 1>>}
    /\ UNCHANGED <<fs, filter, pc, examples, tests, missing, idx, handles, diagsError,
                   state, panicValue, opened, scanErrAt, failed>>

\* searchFile: scanner.Scan() returns false at the end of the file
ScanEOF ==
    /\ pc = "Scan"
    /\ lineNo = Len(testFiles[idx].lines)
    /\ pc' = "Return"
    /\ UNCHANGED <<fs, filter, examples, tests, missing, idx, handles, lineNo, result,
                   diagsError, state, panicValue, opened, scanned, scanErrAt, lastLine,
                   lastRefs, failed>>

\* searchFile: scanner.Scan() returns false because the reader failed;
\* scanner.Err() is not consulted
ScanError ==
    /\ pc = "Scan"
    /\ pc' = "Return"
    /\ scanErrAt' = scanErrAt \cup {idx}
    /\ UNCHANGED <<fs, filter, examples, tests, missing, idx, handles, lineNo, result,
                   diagsError, state, panicValue, opened, scanned, lastLine, lastRefs,
                   failed>>

\* searchFile returns result: the deferred Close runs, the caller appends
SearchFileReturn ==
    /\ pc = "Return"
    /\ handles' = CloseFile(handles, idx)
    /\ tests' = GoAppend(tests, result.elems)
    /\ idx' = idx + 1
    /\ pc' = "Loop"
    /\ UNCHANGED <<fs, filter, examples, missing, lineNo, result, diagsError, state,
                   panicValue, opened, scanned, scanErrAt, lastLine, lastRefs, failed>>

\* findMissingTests: the loop over examples, and the return
ComputeMissing ==
    /\ pc = "Loop"
    /\ idx > Len(testFiles)
    /\ missing' = MissingOf(examples, tests, 1)
    /\ pc' = "Set"
    /\ UNCHANGED <<fs, filter, examples, tests, idx, handles, lineNo, result, diagsError,
                   state, panicValue, opened, scanned, scanErrAt, lastLine, lastRefs,
                   failed>>

\* Read: the list value is built and the state is saved
SetState ==
    /\ pc = "Set"
    /\ state' = [set |-> TRUE, id |-> "examples-validation",
                 missing_tests |-> ListValueFrom(missing)]
    /\ pc' = "Done"
    /\ UNCHANGED <<fs, filter, examples, tests, missing, idx, handles, lineNo, result,
                   diagsError, panicValue, opened, scanned, scanErrAt, lastLine,
                   lastRefs, failed>>

Next ==
    \/ ReadConfig
    \/ ListExamples
    \/ ListTests
    \/ SkipEntry
    \/ OpenFile
    \/ ScanLine
    \/ ScanEOF
    \/ ScanError
    \/ SearchFileReturn
    \/ ComputeMissing
    \/ SetState

Spec == Init /\ [][Next]_vars

(***************************************************************************)
(* A second specification for the line-level behaviour of searchFile: one  *)
(* selected test file holding one line drawn from a generated family of    *)
(* lines, next to a directory entry, with the same operations.             *)
(***************************************************************************)
Leads == { <<>>, <<" ">>, <<"\t", " ">>, <<"#", " ">>, <<"x">> }

Gaps == { <<>>, <<" ">> }

FirstTokens ==
    { DotExamples(S_a),                                     \* ./examples/a
      S_examples \o <<SLASH>> \o S_a,                       \* examples/a
      <<".", SLASH>> \o S_examples,                         \* ./examples
      DotExamples(S_a) \o <<SLASH>>,                        \* ./examples/a/
      <<".", ".", SLASH, ".", ".", SLASH>> \o S_examples \o <<SLASH>>
          \o S_group \o <<SLASH>> \o S_basic,               \* ../../examples/group/basic
      <<".", SLASH, "m", "o", "d", SLASH>> \o S_a,          \* ./mod/a
      S_examples,                                           \* examples
      <<>> }

ExtraTokens ==
    { DotExamples(S_b),                                     \* ./examples/b
      S_b \o <<SLASH>>,                                     \* b/
      <<SLASH>>,                                            \* /
      <<>> }

Tails == { <<>>, <<" ">>, <<" ", "#", " ", "c">>, <<" ", "x", QUOTE>> }

\* the quoted tokens of ts, each after one space
RECURSIVE SpacedQuoted(_, _)
SpacedQuoted(ts, i) ==
    IF i > Len(ts) THEN <<>>
    ELSE <<" ">> \o Quoted(ts[i]) \o SpacedQuoted(ts, i + 1)

GenLines ==
    { lead \o S_source \o g1 \o <<"=">> \o g2 \o Quoted(first) \o SpacedQuoted(extra, 1) \o tail :
        lead \in Leads, g1 \in Gaps, g2 \in Gaps, first \in FirstTokens,
        extra \in SeqsUpTo(ExtraTokens, MaxExtraTokens), tail \in Tails }

InitLines ==
    \E line \in GenLines :
        InitWith([examples |-> SubPool(ExamplePool, {1, 2, 3}, 1),
                  tests |-> << [name |-> TestPool[1].name, isDir |-> FALSE, lines |-> <<line>>],
                               [name |-> TestPool[3].name, isDir |-> TRUE, lines |-> <<>>] >>],
                 <<"_", "t">>)

SpecLines == InitLines /\ [][Next]_vars

(***************************************************************************)
(* Vocabulary of the properties, stated without the operators above.       *)
(***************************************************************************)
Range(seq) == {seq[i] : i \in 1..Len(seq)}

\* sub occurs in s as a contiguous run of characters
IsSubstring(sub, s) == \E a \in 0..Len(s) : \E b \in a..Len(s) : SubSeq(s, a + 1, b) = sub

\* the entries of the tests directory the filter selects
SelectedFiles ==
    {i \in 1..Len(fs.tests) : ~fs.tests[i].isDir /\ IsSubstring(filter, fs.tests[i].name)}

\* the numbers of the lines of entry i that the scanner returned
LinesRead(i) == {n \in 1..Len(fs.tests[i].lines) : <<i, n>> \in scanned}

\* the scanner of some file failed before the file's last line
FailedPartWay == \E i \in scanErrAt : LinesRead(i) # 1..Len(fs.tests[i].lines)

\* the lines of entry i the extractor worked on: all of them, or the ones
\* returned before its scanner stopped on an error
LinesExtracted(i) ==
    IF i \in scanErrAt THEN LinesRead(i) ELSE 1..Len(fs.tests[i].lines)

\* the references the extractor yields for each line a test file can hold
RefsOfLine == [line \in FileLines \cup GenLines |-> Range(LineRefs(line))]

\* the references extracted from the selected test files
ExtractedRefs ==
    UNION { UNION { RefsOfLine[fs.tests[i].lines[n]] : n \in LinesExtracted(i) } :
            i \in SelectedFiles }

\* the names of the immediate subdirectories of the examples root
ExampleDirs == {fs.examples[j].name : j \in {k \in 1..Len(fs.examples) : fs.examples[k].isDir}}

\* the position of name in the enumeration of the examples root
PosInListing(name) == CHOOSE j \in 1..Len(fs.examples) : fs.examples[j].name = name

\* findMissingTests has returned
Returned == pc \in {"Set", "Done"} /\ ~diagsError

\* the positions of the double quotes of line, and its k-th quoted token
QuotePositions(line) == {i \in 1..Len(line) : line[i] = QUOTE}
NthQuote(line, n) ==
    CHOOSE i \in QuotePositions(line) :
        Cardinality({j \in QuotePositions(line) : j < i}) = n - 1
NumTokens(line) == Cardinality(QuotePositions(line)) \div 2
Token(line, k) == SubSeq(line, NthQuote(line, 2 * k - 1) + 1, NthQuote(line, 2 * k) - 1)

IsBlank(s) == \A i \in 1..Len(s) : s[i] \in WhiteSpace

\* head is optional whitespace, source, optional whitespace, =, optional whitespace
IsAssignmentHead(head) ==
    \E i \in 1..Len(head) : \E e \in 1..Len(head) :
        /\ i + Len(S_source) <= e
        /\ IsBlank(SubSeq(head, 1, i - 1))
        /\ SubSeq(head, i, i + Len(S_source) - 1) = S_source
        /\ IsBlank(SubSeq(head, i + Len(S_source), e - 1))
        /\ head[e] = "="
        /\ IsBlank(SubSeq(head, e + 1, Len(head)))

\* line is an assignment head, then one double-quoted string, then nothing
IsSingleAssignment(line) ==
    /\ Cardinality(QuotePositions(line)) = 2
    /\ line[Len(line)] = QUOTE
    /\ IsAssignmentHead(SubSeq(line, 1, NthQuote(line, 1) - 1))

\* line is an assignment head, a double quote, any text, and a final double quote
IsOpenAssignment(line) ==
    /\ Cardinality(QuotePositions(line)) >= 2
    /\ line[Len(line)] = QUOTE
    /\ IsAssignmentHead(SubSeq(line, 1, NthQuote(line, 1) - 1))

\* `examples` occurs in c; with at least one character on either side of it
HasExamples(c) == IsSubstring(S_examples, c)
HasExamplesInside(c) ==
    \E a \in 1..Len(c) : a + Len(S_examples) < Len(c)
                         /\ SubSeq(c, a + 1, a + Len(S_examples)) = S_examples

\* everything of c after its last slash
FinalComponent(c) ==
    LET j == CHOOSE j \in 0..Len(c) :
                 /\ j = 0 \/ c[j] = SLASH
                 /\ \A i \in j + 1..Len(c) : c[i] # SLASH
    IN SubSeq(c, j + 1, Len(c))

\* r is c without its trailing slashes, cut after the last remaining slash;
\* "." for the empty c and "/" for a c of slashes only
IsBaseOf(r, c) ==
    IF c = <<>> THEN r = <<".">>
    ELSE IF \A i \in 1..Len(c) : c[i] = SLASH THEN r = <<SLASH>>
    ELSE /\ r # <<>>
         /\ \A i \in 1..Len(r) : r[i] # SLASH
         /\ \E a \in 0..Len(c) : \E b \in a..Len(c) :
               /\ SubSeq(c, a + 1, b) = r
               /\ a = 0 \/ c[a] = SLASH
               /\ \A i \in b + 1..Len(c) : c[i] = SLASH

LineScanned == lastLine # NoLine

(***************************************************************************)
(* Properties.                                                             *)
(***************************************************************************)
\* C1: what findMissingTests returns is exactly the subdirectories of the
\* examples root that equal no reference extracted from a selected test
\* file: no foreign name, no unreferenced example left out, no referenced
\* example included, in the order of the directory enumeration, no duplicates.
C1_MissingIsDifference ==
    Returned =>
        /\ \A k \in 1..Len(missing.elems) : missing.elems[k] \in ExampleDirs
        /\ \A e \in ExampleDirs : e \notin ExtractedRefs => e \in Range(missing.elems)
        /\ \A k \in 1..Len(missing.elems) : missing.elems[k] \notin ExtractedRefs
        /\ \A k \in 1..Len(missing.elems) : \A l \in 1..Len(missing.elems) :
              k < l => PosInListing(missing.elems[k]) < PosInListing(missing.elems[l])

C1_Witness ==
    /\ pc = "Done" /\ state.set
    /\ ExampleDirs = {S_a, S_b}
    /\ S_a \in ExtractedRefs
    /\ missing.elems = <<S_b>>

\* C2: when the line reader fails part-way through a selected file, the
\* operation ends with an error and no missing report is saved.
C2_ScanErrorFails ==
    (FailedPartWay /\ pc \in {"Set", "Done"}) =>
        /\ ~state.set
        /\ pc = "Done" => diagsError

\* C3 as stated: after a failed ReadDir or Open the operation returns an
\* error to its caller (it does not panic), and saves no state.
C3_ErrorReturned ==
    failed # NoPanic =>
        /\ pc # "Panic"
        /\ pc = "Done" => diagsError
        /\ ~state.set

\* C3 as amended: a failed ReadDir or Open ends the operation with a panic
\* whose value is the failure (operation and path); no state is saved, no
\* missing list is computed, no file is left open, and nothing is opened or
\* scanned afterwards.
C3_FailurePanics ==
    /\ [](failed # NoPanic =>
            /\ pc = "Panic"
            /\ panicValue = failed
            /\ ~state.set
            /\ ~diagsError
            /\ missing = NilSlice
            /\ handles = {})
    /\ [][failed # NoPanic => UNCHANGED <<opened, scanned, tests, state>>]_vars

C3_Witness ==
    /\ pc = "Panic"
    /\ failed.op = "Open"
    /\ opened # {}
    /\ tests.elems # <<>>

\* C4: when every enumerated example is referenced, the saved missing list
\* is an empty list and not null.
C4_EmptyNotNull ==
    (pc = "Done" /\ state.set /\ \A e \in ExampleDirs : e \in ExtractedRefs) =>
        /\ ~missing.isNil
        /\ ~state.missing_tests.null
        /\ state.missing_tests.elems = <<>>

\* C5: an entry of the tests root is opened and scanned if and only if it is
\* not a directory and its name contains the filter as a substring; nothing
\* else is opened, scanned, or contributes a reference.
C5_OnlySelectedOpened ==
    /\ opened \subseteq SelectedFiles
    /\ \A ln \in scanned : ln[1] \in SelectedFiles
    /\ Returned => opened = SelectedFiles
    /\ Returned => \A i \in SelectedFiles \ scanErrAt :
                       LinesRead(i) = 1..Len(fs.tests[i].lines)
    /\ \A r \in Range(tests.elems) \cup Range(result.elems) : r \in ExtractedRefs

C5_Witness ==
    /\ pc = "Done" /\ state.set
    /\ \E i \in 1..Len(fs.tests) :
          /\ ~fs.tests[i].isDir
          /\ i \notin opened
          /\ Line_a \in Range(fs.tests[i].lines)
    /\ opened # {}
    /\ S_a \in Range(missing.elems)

\* C10: at most one test file is open at any time, and none when the
\* operation has ended or is between files; a file is opened only when none
\* is open, and references are merged into tests only when the file's scan
\* has ended, in the step that closes the file.
C10_OneFileAtATime ==
    /\ [](/\ Cardinality(handles) <= 1
          /\ handles # {} => handles = {idx} /\ pc \in {"Scan", "Return"}
          /\ pc \in {"Scan", "Return"} => handles = {idx})
    /\ [][/\ (handles' # handles /\ handles' # {}) => handles = {}
          /\ tests' # tests => pc = "Return" /\ handles' = {}
          /\ (opened' # opened) => handles = {}]_vars

C10_Witness ==
    /\ pc = "Scan"
    /\ handles = {idx}
    /\ Cardinality(opened) = 2
    /\ scanErrAt # {}
    /\ tests.elems # <<>>

\* C6 as stated: a line yields references only if it is an assignment head
\* followed by one double-quoted string and nothing else.
C6_OnlySingleAssignment ==
    (LineScanned /\ lastRefs # <<>>) => IsSingleAssignment(lastLine)

\* C6 as amended: a line yields references only if it is optional
\* whitespace, source, optional whitespace, =, optional whitespace, a double
\* quote, text with `examples` strictly inside it (the text may hold further
\* double quotes), and a double quote as the last character of the line.
C6_OnlyAnchoredAssignment ==
    (LineScanned /\ lastRefs # <<>>) =>
        /\ IsOpenAssignment(lastLine)
        /\ HasExamplesInside(SubSeq(lastLine, NthQuote(lastLine, 1) + 1, Len(lastLine) - 1))

C6_Witness ==
    /\ LineScanned
    /\ Len(lastRefs) = 2
    /\ IsOpenAssignment(lastLine)
    /\ ~IsSingleAssignment(lastLine)

\* C7 as stated: every assignment of one double-quoted string whose contents
\* contain `examples` anywhere yields a reference.
C7_ExamplesAnywhere ==
    (LineScanned /\ IsSingleAssignment(lastLine) /\ HasExamples(Token(lastLine, 1))) =>
        lastRefs # <<>>

\* C7 as amended: every assignment of one double-quoted string whose
\* contents contain `examples` with at least one character before it and at
\* least one after it yields a reference.
C7_ExamplesInside ==
    (LineScanned /\ IsSingleAssignment(lastLine) /\ HasExamplesInside(Token(lastLine, 1))) =>
        lastRefs # <<>>

C7_Witness ==
    /\ LineScanned
    /\ IsSingleAssignment(lastLine)
    /\ HasExamplesInside(Token(lastLine, 1))
    /\ lastRefs = <<S_basic>>

\* C8 as stated: each reference is everything after the last slash of its
\* quoted token.
C8_FinalComponent ==
    LineScanned =>
        \A k \in 1..Len(lastRefs) :
            k <= NumTokens(lastLine) /\ lastRefs[k] = FinalComponent(Token(lastLine, k))

\* C8 as amended: each reference is its quoted token without trailing
\* slashes, cut after the last remaining slash; the empty token gives "."
\* and a token of slashes only gives "/".
C8_BaseOfToken ==
    LineScanned =>
        \A k \in 1..Len(lastRefs) :
            k <= NumTokens(lastLine) /\ IsBaseOf(lastRefs[k], Token(lastLine, k))

C8_Witness ==
    /\ LineScanned
    /\ Len(lastRefs) = 2
    /\ Token(lastLine, 1) = DotExamples(S_a) \o <<SLASH>>
    /\ lastRefs[1] = S_a
    /\ Token(lastLine, 2) = <<>>
    /\ lastRefs[2] = <<".">>

\* C9: a matching line yields one reference per double-quoted token, in
\* left-to-right order, each the normalisation of its own token.
C9_OneRefPerToken ==
    (LineScanned /\ MatchString(lastLine)) =>
        /\ Len(lastRefs) = NumTokens(lastLine)
        /\ \A k \in 1..NumTokens(lastLine) : lastRefs[k] = Base(Token(lastLine, k))

C9_Witness ==
    /\ LineScanned
    /\ NumTokens(lastLine) = 2
    /\ lastRefs = <<S_a, S_b>>

====
